---- MODULE Spec2Model ----
(***************************************************************************)
(* Energy manager: the AppDaemon app (apps/energy_manager/energy_manager.py)*)
(* the Home Assistant integration (custom_components/energy_manager) and   *)
(* the local harness (test_logic.py).                                      *)
(*                                                                         *)
(* Numbers.  Every Python float or int x is held as the integer 1000 * x   *)
(* (fixed point, thousandths): 3.0 kW is 3000, 20 % is 20000, 0.02 is 20.  *)
(* Time is counted in whole hours (datetime.now()).                        *)
(***************************************************************************)
EXTENDS Integers, Sequences, FiniteSets, TLC

\* ------------------------------------------------------------ bounds
\* the clock runs from 0 to MaxTime hours
MaxTime == 2
\* runs that may be in flight at once in the integration (asyncio tasks)
MaxInFlight == 2
\* the clock of the periodic engine runs from 0 to MaxLiveTime hours
MaxLiveTime == 4

\* ------------------------------------------------------------ numbers
\* the fixed-point image of the whole number n
F(n) == n * 1000

\* x / 1000 (W -> kW) on fixed-point values
DivThousand(x) == IF x >= 0 THEN x \div 1000 ELSE -((-x) \div 1000)

\* x * 0.2 on fixed-point values
TimesPointTwo(x) == (x * 200) \div 1000

Abs(x) == IF x < 0 THEN -x ELSE x

\* ------------------------------------------------------------ raw readings
\* What the host hands out for an entity: nothing (Python None, no such
\* entity), a string float() rejects, or a string float() parses; n is the
\* parsed value, sp tells two spellings of one number apart ("1" and "1.0").
Missing == [k |-> "none", n |-> 0, s |-> "", sp |-> 0]
Str(s) == [k |-> "str", n |-> 0, s |-> s, sp |-> 0]
Num(n) == [k |-> "num", n |-> n, s |-> "", sp |-> 0]
NumAlt(n) == [k |-> "num", n |-> n, s |-> "", sp |-> 1]

\* ------------------------------------------------------------ configuration
\* the logical sensor names the engine reads in both hosts
BaseEntities == {"pv_power", "pv_forecast_today", "pv_forecast_remaining",
                 "battery_soc", "battery_power", "car_soc", "car_charging_power",
                 "car_connected", "grid_power", "house_consumption", "current_price"}

\* the further names only the integration reads
ForecastEntities == {"pv_forecast_tomorrow", "pv_forecast_next_hour", "pv_forecast_d3",
                     "pv_forecast_d4", "pv_forecast_d5", "pv_forecast_d6", "pv_forecast_d7"}

DEFAULT_CONFIG ==
    [battery_max_soc |-> F(95), battery_reserve_evening |-> F(30),
     car_min_soc_target |-> F(20), car_default_target_soc |-> F(80),
     pv_peak_power_kw |-> F(10),
     price_cheap_threshold |-> F(15), price_very_cheap_threshold |-> F(8),
     price_expensive_threshold |-> F(30),
     pv_surplus_for_car_charging |-> F(3), pv_surplus_for_battery |-> F(1),
     entities |-> BaseEntities \cup {"battery_charging_switch", "battery_mode",
                                     "car_charging_switch", "price_level"}]

CONFIG ==
    [battery_max_soc |-> F(95), battery_reserve_evening |-> F(30),
     car_min_soc_target |-> F(20), car_default_target_soc |-> F(80),
     pv_peak_power_kw |-> F(10),
     price_cheap_threshold |-> F(15), price_very_cheap_threshold |-> F(8),
     price_expensive_threshold |-> F(30),
     pv_surplus_for_car_charging |-> F(3), pv_surplus_for_battery |-> F(1),
     entities |-> BaseEntities \cup {"battery_charging_switch", "battery_mode",
                                     "car_charging_switch", "price_level"}]

\* cfg = {**DEFAULT_CONFIG, **user_cfg, "entities": {**defaults, **user entities}}
\* user is a function on a subset of the keys; its entities are a set of names
MergeConfig(user) ==
    [key \in DOMAIN DEFAULT_CONFIG |->
        IF key = "entities"
        THEN DEFAULT_CONFIG.entities \cup
                 (IF "entities" \in DOMAIN user THEN user.entities ELSE {})
        ELSE IF key \in DOMAIN user THEN user[key] ELSE DEFAULT_CONFIG[key]]

\* cfg.get(key, DEFAULT_CONFIG[key])
CfgGet(cfg, key) == IF key \in DOMAIN cfg THEN cfg[key] ELSE DEFAULT_CONFIG[key]

\* ------------------------------------------------------------ rule evaluator
Decision(action, priority, details, notify) ==
    [action |-> action, priority |-> priority, details |-> details, notify |-> notify]

\* faulty variant: the insertion ignores the priority
InsertByPriority_append(sorted, d) == Append(sorted, d)

\* list.sort(key=priority) is stable: d goes behind every entry whose priority
\* is not larger than its own
RECURSIVE InsertByPriority(_, _)
InsertByPriority(sorted, d) ==
    IF sorted = <<>> THEN <<d>>
    ELSE IF sorted[Len(sorted)].priority <= d.priority THEN Append(sorted, d)
    ELSE Append(InsertByPriority(SubSeq(sorted, 1, Len(sorted) - 1), d), sorted[Len(sorted)])

\* faulty variant: the sort left out
SortByPriority_omitted(decisions) == decisions

RECURSIVE SortByPriority(_)
SortByPriority(decisions) ==
    IF decisions = <<>> THEN <<>>
    ELSE InsertByPriority(SortByPriority(SubSeq(decisions, 1, Len(decisions) - 1)),
                          decisions[Len(decisions)])

\* faulty variant: the app counts PV at exactly 20 % of the peak as producing well
App_is_pv_producing_well_at_fifth(s, CFG) ==
    s.pv_power_kw >= TimesPointTwo(CFG.pv_peak_power_kw)

\* EnergyManager._is_pv_producing_well
App_is_pv_producing_well(s, CFG) ==
    s.pv_power_kw > TimesPointTwo(CFG.pv_peak_power_kw)

\* faulty variant: stop_grid_consumption from the cheap threshold upwards
App_make_decisions_stop_at_cheap(s, CFG) ==
    LET price == s.current_price_ct
        cheap == CFG.price_cheap_threshold
        very_cheap == CFG.price_very_cheap_threshold
        expensive == CFG.price_expensive_threshold
        d1 == IF /\ s.car_connected
                 /\ s.car_soc < CFG.car_default_target_soc
                 /\ s.pv_surplus_kw >= CFG.pv_surplus_for_car_charging
              THEN <<Decision("car_charge_pv", 1, TRUE, TRUE)>> ELSE <<>>
        d2 == IF /\ s.pv_surplus_kw >= CFG.pv_surplus_for_battery
                 /\ s.battery_soc < CFG.battery_max_soc
                 /\ ~s.car_connected
              THEN <<Decision("battery_charge_pv", 1, FALSE, FALSE)>> ELSE <<>>
        d3 == IF /\ price <= very_cheap
                 /\ s.battery_soc < CFG.battery_max_soc
                 /\ ~App_is_pv_producing_well(s, CFG)
              THEN <<Decision("battery_charge_grid", 2, TRUE, TRUE)>> ELSE <<>>
        d4 == IF /\ s.car_connected
                 /\ s.car_soc < CFG.car_default_target_soc
                 /\ price <= cheap
                 /\ s.pv_surplus_kw < CFG.pv_surplus_for_car_charging
              THEN <<Decision("car_charge_cheap", 2, TRUE, TRUE)>> ELSE <<>>
        d5 == IF s.car_connected /\ s.car_soc < CFG.car_min_soc_target
              THEN <<Decision("car_charge_emergency", 0, TRUE, TRUE)>> ELSE <<>>
        d6 == IF price >= cheap /\ s.battery_soc > CFG.battery_reserve_evening
              THEN <<Decision("stop_grid_consumption", 2, TRUE, TRUE)>> ELSE <<>>
    IN  SortByPriority(d1 \o d2 \o d3 \o d4 \o d5 \o d6)

\* EnergyManager.make_decisions; CFG is the module's CONFIG dictionary
App_make_decisions(s, CFG) ==
    LET price == s.current_price_ct
        cheap == CFG.price_cheap_threshold
        very_cheap == CFG.price_very_cheap_threshold
        expensive == CFG.price_expensive_threshold
        d1 == IF /\ s.car_connected
                 /\ s.car_soc < CFG.car_default_target_soc
                 /\ s.pv_surplus_kw >= CFG.pv_surplus_for_car_charging
              THEN <<Decision("car_charge_pv", 1, TRUE, TRUE)>> ELSE <<>>
        d2 == IF /\ s.pv_surplus_kw >= CFG.pv_surplus_for_battery
                 /\ s.battery_soc < CFG.battery_max_soc
                 /\ ~s.car_connected
              THEN <<Decision("battery_charge_pv", 1, FALSE, FALSE)>> ELSE <<>>
        d3 == IF /\ price <= very_cheap
                 /\ s.battery_soc < CFG.battery_max_soc
                 /\ ~App_is_pv_producing_well(s, CFG)
              THEN <<Decision("battery_charge_grid", 2, TRUE, TRUE)>> ELSE <<>>
        d4 == IF /\ s.car_connected
                 /\ s.car_soc < CFG.car_default_target_soc
                 /\ price <= cheap
                 /\ s.pv_surplus_kw < CFG.pv_surplus_for_car_charging
              THEN <<Decision("car_charge_cheap", 2, TRUE, TRUE)>> ELSE <<>>
        d5 == IF s.car_connected /\ s.car_soc < CFG.car_min_soc_target
              THEN <<Decision("car_charge_emergency", 0, TRUE, TRUE)>> ELSE <<>>
        d6 == IF price >= expensive /\ s.battery_soc > CFG.battery_reserve_evening
              THEN <<Decision("stop_grid_consumption", 2, TRUE, TRUE)>> ELSE <<>>
    IN  SortByPriority(d1 \o d2 \o d3 \o d4 \o d5 \o d6)

\* faulty variant: >= for >
Int_is_pv_producing_well_ge(s, cfg) ==
    s.pv_power_kw >= TimesPointTwo(CfgGet(cfg, "pv_peak_power_kw"))

\* EnergyManagerCoordinator._is_pv_producing_well
Int_is_pv_producing_well(s, cfg) ==
    s.pv_power_kw > TimesPointTwo(CfgGet(cfg, "pv_peak_power_kw"))

\* EnergyManagerCoordinator._make_decisions
Int_make_decisions(s, cfg) ==
    LET price == s.current_price_eur
        cheap == CfgGet(cfg, "price_cheap_threshold")
        very_cheap == CfgGet(cfg, "price_very_cheap_threshold")
        expensive == CfgGet(cfg, "price_expensive_threshold")
        d1 == IF /\ s.car_connected
                 /\ s.car_soc < CfgGet(cfg, "car_default_target_soc")
                 /\ s.pv_surplus_kw >= CfgGet(cfg, "pv_surplus_for_car_charging")
              THEN <<Decision("car_charge_pv", 1, TRUE, TRUE)>> ELSE <<>>
        d2 == IF /\ s.pv_surplus_kw >= CfgGet(cfg, "pv_surplus_for_battery")
                 /\ s.battery_soc < CfgGet(cfg, "battery_max_soc")
                 /\ ~s.car_connected
              THEN <<Decision("battery_charge_pv", 1, FALSE, FALSE)>> ELSE <<>>
        d3 == IF /\ price <= very_cheap
                 /\ s.battery_soc < CfgGet(cfg, "battery_max_soc")
                 /\ ~Int_is_pv_producing_well(s, cfg)
              THEN <<Decision("battery_charge_grid", 2, TRUE, TRUE)>> ELSE <<>>
        d4 == IF /\ s.car_connected
                 /\ s.car_soc < CfgGet(cfg, "car_default_target_soc")
                 /\ price <= cheap
                 /\ s.pv_surplus_kw < CfgGet(cfg, "pv_surplus_for_car_charging")
              THEN <<Decision("car_charge_cheap", 2, TRUE, TRUE)>> ELSE <<>>
        d5 == IF s.car_connected /\ s.car_soc < CfgGet(cfg, "car_min_soc_target")
              THEN <<Decision("car_charge_emergency", 0, TRUE, TRUE)>> ELSE <<>>
        d6 == IF /\ price >= expensive
                 /\ s.battery_soc > CfgGet(cfg, "battery_reserve_evening")
              THEN <<Decision("stop_grid_consumption", 2, TRUE, TRUE)>> ELSE <<>>
    IN  SortByPriority(d1 \o d2 \o d3 \o d4 \o d5 \o d6)

\* test_logic.make_decisions: its decisions carry no details and no notify key
TestDecision(action, priority) == [action |-> action, priority |-> priority]

\* faulty variant: the cheap-price rule of the car without its surplus guard
Test_make_decisions_cheap_unguarded(s, cfg) ==
    LET price == s.current_price_eur
        cheap == CfgGet(cfg, "price_cheap_threshold")
        very_cheap == CfgGet(cfg, "price_very_cheap_threshold")
        expensive == CfgGet(cfg, "price_expensive_threshold")
        d1 == IF /\ s.car_connected
                 /\ s.car_soc < CfgGet(cfg, "car_default_target_soc")
                 /\ s.pv_surplus_kw >= CfgGet(cfg, "pv_surplus_for_car_charging")
              THEN <<TestDecision("car_charge_pv", 1)>> ELSE <<>>
        d2 == IF /\ s.pv_surplus_kw >= CfgGet(cfg, "pv_surplus_for_battery")
                 /\ s.battery_soc < CfgGet(cfg, "battery_max_soc")
                 /\ ~s.car_connected
              THEN <<TestDecision("battery_charge_pv", 1)>> ELSE <<>>
        pv_producing_well ==
              s.pv_power_kw > TimesPointTwo(CfgGet(cfg, "pv_peak_power_kw"))
        d3 == IF /\ price <= very_cheap
                 /\ s.battery_soc < CfgGet(cfg, "battery_max_soc")
                 /\ ~pv_producing_well
              THEN <<TestDecision("battery_charge_grid", 2)>> ELSE <<>>
        d4 == IF /\ s.car_connected
                 /\ s.car_soc < CfgGet(cfg, "car_default_target_soc")
                 /\ price <= cheap
              THEN <<TestDecision("car_charge_cheap", 2)>> ELSE <<>>
        d5 == IF s.car_connected /\ s.car_soc < CfgGet(cfg, "car_min_soc_target")
              THEN <<TestDecision("car_charge_emergency", 0)>> ELSE <<>>
        d6 == IF /\ price >= expensive
                 /\ s.battery_soc > CfgGet(cfg, "battery_reserve_evening")
              THEN <<TestDecision("stop_grid_consumption", 2)>> ELSE <<>>
    IN  SortByPriority(d1 \o d2 \o d3 \o d4 \o d5 \o d6)

Test_make_decisions(s, cfg) ==
    LET price == s.current_price_eur
        cheap == CfgGet(cfg, "price_cheap_threshold")
        very_cheap == CfgGet(cfg, "price_very_cheap_threshold")
        expensive == CfgGet(cfg, "price_expensive_threshold")
        d1 == IF /\ s.car_connected
                 /\ s.car_soc < CfgGet(cfg, "car_default_target_soc")
                 /\ s.pv_surplus_kw >= CfgGet(cfg, "pv_surplus_for_car_charging")
              THEN <<TestDecision("car_charge_pv", 1)>> ELSE <<>>
        d2 == IF /\ s.pv_surplus_kw >= CfgGet(cfg, "pv_surplus_for_battery")
                 /\ s.battery_soc < CfgGet(cfg, "battery_max_soc")
                 /\ ~s.car_connected
              THEN <<TestDecision("battery_charge_pv", 1)>> ELSE <<>>
        pv_producing_well ==
              s.pv_power_kw > TimesPointTwo(CfgGet(cfg, "pv_peak_power_kw"))
        d3 == IF /\ price <= very_cheap
                 /\ s.battery_soc < CfgGet(cfg, "battery_max_soc")
                 /\ ~pv_producing_well
              THEN <<TestDecision("battery_charge_grid", 2)>> ELSE <<>>
        d4 == IF /\ s.car_connected
                 /\ s.car_soc < CfgGet(cfg, "car_default_target_soc")
                 /\ price <= cheap
                 /\ s.pv_surplus_kw < CfgGet(cfg, "pv_surplus_for_car_charging")
              THEN <<TestDecision("car_charge_cheap", 2)>> ELSE <<>>
        d5 == IF s.car_connected /\ s.car_soc < CfgGet(cfg, "car_min_soc_target")
              THEN <<TestDecision("car_charge_emergency", 0)>> ELSE <<>>
        d6 == IF /\ price >= expensive
                 /\ s.battery_soc > CfgGet(cfg, "battery_reserve_evening")
              THEN <<TestDecision("stop_grid_consumption", 2)>> ELSE <<>>
    IN  SortByPriority(d1 \o d2 \o d3 \o d4 \o d5 \o d6)

\* ------------------------------------------------------------ normalizer
\* float(val): the value, or the exception float() raises
PyFloat(val) ==
    IF val.k = "num" THEN [exc |-> "", v |-> val.n]
    ELSE IF val.k = "none" THEN [exc |-> "TypeError", v |-> 0]
    ELSE [exc |-> "ValueError", v |-> 0]

\* faulty variant: a value float() rejects comes back as -1, not as the default
safe_float_minus_one(val, default) ==
    IF val.k = "none" \/ val = Str("unavailable") \/ val = Str("unknown")
    THEN default
    ELSE IF PyFloat(val).exc \in {"ValueError", "TypeError"} THEN -1000
    ELSE PyFloat(val).v

\* safe_float of both hosts: None, "unavailable", "unknown" give the default,
\* and so does a value on which float() raises ValueError or TypeError
safe_float(val, default) ==
    IF val.k = "none" \/ val = Str("unavailable") \/ val = Str("unknown")
    THEN default
    ELSE IF PyFloat(val).exc \in {"ValueError", "TypeError"} THEN default
    ELSE PyFloat(val).v

\* safe_bool of both hosts: val in ("on", "true", "True", "1", "home")
safe_bool(val) ==
    \/ val.k = "str" /\ val.s \in {"on", "true", "True", "home"}
    \/ val = Num(F(1))

\* self.get_state(entity) / hass.states.get(entity): the reading of a logical
\* sensor, None when the host knows no such entity
Reading(r, name) == IF name \in DOMAIN r THEN r[name] ELSE Missing

\* EnergyManager.get_system_state: <<>> is None.  hostRaises: a host call
\* raised inside the try block.  Only the fields a rule, the summary or the
\* price level reads are kept; the other fields are read the same way and
\* passed through.
App_get_system_state(r, hostRaises) ==
    IF hostRaises \/ ~((BaseEntities \cup {"price_level"}) \subseteq CONFIG.entities)
    THEN <<>>
    ELSE LET pv_power_w == safe_float(Reading(r, "pv_power"), 0)
             house_consumption_w == safe_float(Reading(r, "house_consumption"), 0)
             pv_surplus_w == pv_power_w - house_consumption_w
             level == Reading(r, "price_level")
         IN  <<[pv_power_kw |-> DivThousand(pv_power_w),
                pv_surplus_kw |-> DivThousand(pv_surplus_w),
                battery_soc |-> safe_float(Reading(r, "battery_soc"), 0),
                car_soc |-> safe_float(Reading(r, "car_soc"), 0),
                car_connected |-> safe_bool(Reading(r, "car_connected")),
                current_price_ct |-> safe_float(Reading(r, "current_price"), 0),
                price_level |-> IF level.k = "none" \/ level = Str("")
                                THEN "NORMAL"
                                ELSE IF level.k = "str" THEN level.s ELSE "NUMERIC"]>>

\* faulty variant: the cheap threshold is tested before the very-cheap one
Int_compute_price_level_cheap_first(price, cfg) ==
    LET very_cheap == CfgGet(cfg, "price_very_cheap_threshold")
        cheap == CfgGet(cfg, "price_cheap_threshold")
        expensive == CfgGet(cfg, "price_expensive_threshold")
    IN  IF price <= cheap THEN "CHEAP"
        ELSE IF price <= very_cheap THEN "VERY_CHEAP"
        ELSE IF price >= expensive THEN "EXPENSIVE"
        ELSE "NORMAL"

\* faulty variant: > for >= at the expensive threshold
Test_compute_price_level_gt(price, cfg) ==
    LET very_cheap == CfgGet(cfg, "price_very_cheap_threshold")
        cheap == CfgGet(cfg, "price_cheap_threshold")
        expensive == CfgGet(cfg, "price_expensive_threshold")
    IN  IF price <= very_cheap THEN "VERY_CHEAP"
        ELSE IF price <= cheap THEN "CHEAP"
        ELSE IF price > expensive THEN "EXPENSIVE"
        ELSE "NORMAL"

\* test_logic.compute_price_level
Test_compute_price_level(price, cfg) ==
    LET very_cheap == CfgGet(cfg, "price_very_cheap_threshold")
        cheap == CfgGet(cfg, "price_cheap_threshold")
        expensive == CfgGet(cfg, "price_expensive_threshold")
    IN  IF price <= very_cheap THEN "VERY_CHEAP"
        ELSE IF price <= cheap THEN "CHEAP"
        ELSE IF price >= expensive THEN "EXPENSIVE"
        ELSE "NORMAL"

\* EnergyManagerCoordinator._compute_price_level
Int_compute_price_level(price, cfg) ==
    LET very_cheap == CfgGet(cfg, "price_very_cheap_threshold")
        cheap == CfgGet(cfg, "price_cheap_threshold")
        expensive == CfgGet(cfg, "price_expensive_threshold")
    IN  IF price <= very_cheap THEN "VERY_CHEAP"
        ELSE IF price <= cheap THEN "CHEAP"
        ELSE IF price >= expensive THEN "EXPENSIVE"
        ELSE "NORMAL"

\* EnergyManagerCoordinator._get_system_state: e[name] raises KeyError for a
\* logical name the merged entities lack, and the except clause returns None
Int_get_system_state(r, cfg, hostRaises) ==
    IF hostRaises \/ ~((BaseEntities \cup ForecastEntities) \subseteq cfg.entities)
    THEN <<>>
    ELSE LET pv_power_w == safe_float(Reading(r, "pv_power"), 0)
             house_consumption_w == safe_float(Reading(r, "house_consumption"), 0)
             pv_surplus_w == pv_power_w - house_consumption_w
             current_price_eur == safe_float(Reading(r, "current_price"), 0)
         IN  <<[pv_power_kw |-> DivThousand(pv_power_w),
                pv_surplus_kw |-> DivThousand(pv_surplus_w),
                battery_soc |-> safe_float(Reading(r, "battery_soc"), 0),
                car_soc |-> safe_float(Reading(r, "car_soc"), 0),
                car_connected |-> safe_bool(Reading(r, "car_connected")),
                current_price_eur |-> current_price_eur,
                price_level |-> Int_compute_price_level(current_price_eur, cfg)]>>

\* test_logic.safe_bool: str(MOCK_SENSORS.get(entity_id, "off")) in (...)
Test_safe_bool(val) ==
    \/ val.k = "str" /\ val.s \in {"on", "true", "True", "home"}
    \/ val = Num(F(1))

\* test_logic.get_system_state; it has no try block and reads names every
\* configuration holds
Test_get_system_state(r, cfg) ==
    LET pv_power_raw == safe_float(Reading(r, "pv_power"), 0)
        house_consumption_raw == safe_float(Reading(r, "house_consumption"), 0)
        pv_power_kw == DivThousand(pv_power_raw)
        house_consumption_kw == DivThousand(house_consumption_raw)
        current_price_eur == safe_float(Reading(r, "current_price"), 0)
    IN  <<[pv_power_kw |-> pv_power_kw,
           pv_surplus_kw |-> pv_power_kw - house_consumption_kw,
           battery_soc |-> safe_float(Reading(r, "battery_soc"), 0),
           car_soc |-> safe_float(Reading(r, "car_soc"), 0),
           car_connected |-> Test_safe_bool(Reading(r, "car_connected")),
           current_price_eur |-> current_price_eur,
           price_level |-> Test_compute_price_level(current_price_eur, cfg)]>>

\* ------------------------------------------------------------ notification gate
\* timedelta(hours=2)
COOLDOWN_HOURS == 2

EmptyDict == [x \in {} |-> 0]

\* dict.get(key): <<>> is None
DictGet(d, key) == IF key \in DOMAIN d THEN <<d[key]>> ELSE <<>>

\* d[key] = value
DictSet(d, key, value) ==
    [x \in DOMAIN d \cup {key} |-> IF x = key THEN value ELSE d[x]]

\* faulty variant: an action that has an entry stays throttled
Throttled_for_good(last, now) == last # <<>>

\* faulty variant: <= for <
Throttled_le(last, now) == last # <<>> /\ now - last[1] <= COOLDOWN_HOURS

\* `if last and (now - last) < timedelta(hours=2)`: a datetime is always truthy
Throttled(last, now) == last # <<>> /\ now - last[1] < COOLDOWN_HOURS

\* what the run's log keeps of a gate call.  since: the hours between the
\* action's entry and the call, <<>> without an entry; outcome: "suppressed",
\* "calling" (the send is under way), "sent" or "failed"
GateEntry(action, now, last, outcome) ==
    [action |-> action,
     since |-> IF last = <<>> THEN <<>> ELSE <<now - last[1]>>,
     outcome |-> outcome]

\* faulty variant: a send restarts the window of every identifier in the map
Record_every_key(last_notif, action, now) ==
    [x \in DOMAIN last_notif \cup {action} |-> now]

\* self._last_notification[action_key] = now
Record(last_notif, action, now) == DictSet(last_notif, action, now)

\* faulty variant: the loop hands every decision to the gate
RECURSIVE ExecuteFrom_every_decision(_, _, _, _, _)
ExecuteFrom_every_decision(decisions, i, now, last_notif, log) ==
    IF i > Len(decisions)
    THEN [i |-> i, calling |-> FALSE, log |-> log]
    ELSE LET d == decisions[i]
             last == DictGet(last_notif, d.action)
         IN  IF Throttled(last, now)
             THEN ExecuteFrom_every_decision(decisions, i + 1, now, last_notif,
                                             Append(log, GateEntry(d.action, now, last, "suppressed")))
             ELSE [i |-> i, calling |-> TRUE,
                   log |-> Append(log, GateEntry(d.action, now, last, "calling"))]

\* The for-loop of execute_decisions / _execute_decisions from decision i on,
\* up to the point where a gate call hands a message to the host (call_service /
\* await async_call) or the list ends.  log collects the gate calls of the run.
RECURSIVE ExecuteFrom(_, _, _, _, _)
ExecuteFrom(decisions, i, now, last_notif, log) ==
    IF i > Len(decisions)
    THEN [i |-> i, calling |-> FALSE, log |-> log]
    ELSE LET d == decisions[i]
             last == DictGet(last_notif, d.action)
         IN  IF d.notify /\ d.details
             THEN IF Throttled(last, now)
                  THEN ExecuteFrom(decisions, i + 1, now, last_notif,
                                   Append(log, GateEntry(d.action, now, last, "suppressed")))
                  ELSE [i |-> i, calling |-> TRUE,
                        log |-> Append(log, GateEntry(d.action, now, last, "calling"))]
             ELSE ExecuteFrom(decisions, i + 1, now, last_notif, log)

\* ------------------------------------------------------------ price-change handler
\* The handlers subtract two parsed prices and compare the difference with a
\* literal, so here a float is kept as the double it is: the double nearest
\* to m/1000, written m/1000 + e * 2^-60/1000.  FloatError is e for the prices
\* of EventPrices.
FloatError(m) ==
    CASE m = 0 -> 0
      [] m = -1 -> -24
      [] m = 20 -> 480
      [] m = 21 -> 1504
      [] m = 120 -> -5120
      [] m = 140 -> 15360
      [] m = 2000 -> 0
      [] m = 2001 -> -126976
      [] m = 6300 -> -204800
      [] m = 8300 -> 819200

Double(m) == [m |-> m, e |-> FloatError(m)]

\* a - b; exact for the doubles above whenever it decides a comparison
DoubleSub(a, b) == [m |-> a.m - b.m, e |-> a.e - b.e]

DoubleAbs(a) == IF a.m < 0 \/ (a.m = 0 /\ a.e < 0) THEN [m |-> -a.m, e |-> -a.e] ELSE a

DoubleGt(a, b) == a.m > b.m \/ (a.m = b.m /\ a.e > b.e)

\* the `> 2.0` of EnergyManager.on_price_change
APP_SIGNIFICANT_CHANGE == 2000
\* the `> 0.02` of EnergyManagerCoordinator._on_price_change
INT_SIGNIFICANT_CHANGE == 20

\* EnergyManager.on_price_change(entity, attribute, old, new, kwargs).
\* run: it calls run_energy_manager; raised: the exception that leaves it
\* ("" for none).  except (ValueError, TypeError) swallows what float() raises;
\* `if old_price and ...` is false for an old price of 0.0.
App_on_price_change(old, new) ==
    IF old = new THEN [run |-> FALSE, raised |-> ""]
    ELSE LET new_price == PyFloat(new)
             old_is_none == old.k = "none" \/ old = Str("unavailable")
             old_price == IF old_is_none THEN [exc |-> "", v |-> 0] ELSE PyFloat(old)
             exc == IF new_price.exc # "" THEN new_price.exc ELSE old_price.exc
         IN  IF exc # ""
             THEN [run |-> FALSE,
                   raised |-> IF exc \in {"ValueError", "TypeError"} THEN "" ELSE exc]
             ELSE [run |-> /\ ~old_is_none
                           /\ Double(old_price.v) # Double(0)
                           /\ DoubleGt(DoubleAbs(DoubleSub(Double(new_price.v),
                                                           Double(old_price.v))),
                                       Double(APP_SIGNIFICANT_CHANGE)),
                   raised |-> ""]

\* EnergyManagerCoordinator._on_price_change(event).  run: it creates the task
\* async_refresh().  A Missing old or new is an event without that state object.
Int_on_price_change(old, new) ==
    IF new.k = "none" THEN [run |-> FALSE, raised |-> ""]
    ELSE IF new = old THEN [run |-> FALSE, raised |-> ""]
    ELSE LET new_price == PyFloat(new)
             old_is_none == old.k = "none" \/ old = Str("unavailable")
                                \/ old = Str("unknown")
             old_price == IF old_is_none THEN [exc |-> "", v |-> 0] ELSE PyFloat(old)
             exc == IF new_price.exc # "" THEN new_price.exc ELSE old_price.exc
         IN  IF exc # ""
             THEN [run |-> FALSE,
                   raised |-> IF exc \in {"ValueError", "TypeError"} THEN "" ELSE exc]
             ELSE [run |-> /\ ~old_is_none
                           /\ DoubleGt(DoubleAbs(DoubleSub(Double(new_price.v),
                                                           Double(old_price.v))),
                                       Double(INT_SIGNIFICANT_CHANGE)),
                   raised |-> ""]

\* ------------------------------------------------------------ state
VARIABLES
    host,               \* "app" (AppDaemon) or "integration" (Home Assistant)
    cfg,                \* CONFIG, or the integration's merged self._cfg
    clock,              \* what datetime.now() returns, in hours
    last_notification,  \* state["last_notification"] / self._last_notification
    last_decision,      \* app: state["last_decision"], <<>> is None
    runs,               \* per slot: <<>> or <<the run waiting for its send>>
    lastRun,            \* history: the run that ended last
    lastEvent,          \* history: a price-changed event and its handling
    sentAt,             \* history: per action, the gate time of its last successful send
    evalIn,             \* evaluator harness: a state and a configuration
    evalOut             \* evaluator harness: what the three copies return

vars == <<host, cfg, clock, last_notification, last_decision, runs, lastRun,
          lastEvent, sentAt, evalIn, evalOut>>

Slots == 1..MaxInFlight

InFlight == {k \in Slots : runs[k] # <<>>}

\* ------------------------------------------------------------ inputs
\* user configurations of the integration: none at all, and one that names
\* the forecast sensors
UserConfigs == {<<>>, [entities |-> ForecastEntities]}

\* sensor readings of a run
RunReadings ==
    [pv_power : {Str("unavailable"), Num(F(5000))},
     house_consumption : {Num(F(800))},
     battery_soc : {Num(F(72))},
     car_soc : {Num(F(15))},
     car_connected : {Str("on"), Str("off")},
     current_price : {Num(F(20))}]
    \cup {[pv_power |-> Num(F(5000)), house_consumption |-> Num(F(800)),
            battery_soc |-> Num(F(72)), car_soc |-> Num(F(15)),
            car_connected |-> Str("off"), current_price |-> Num(F(30))]}

\* old and new values of a price-changed event; T is the significance threshold
EventPrices(h) ==
    LET T == IF h = "app" THEN APP_SIGNIFICANT_CHANGE ELSE INT_SIGNIFICANT_CHANGE
    IN  {Missing, Str("unavailable"), Str("unknown"), Str("abc"),
         Num(0), Num(T), NumAlt(T), Num(T + 1), Num(-1)}
        \cup (IF h = "app" THEN {Num(6300), Num(8300)} ELSE {Num(120), Num(140)})

\* the events of the engine's specifications: one that starts a run, one below
\* the threshold, one without an old value
EngineEvents(h) ==
    LET T == IF h = "app" THEN APP_SIGNIFICANT_CHANGE ELSE INT_SIGNIFICANT_CHANGE
    IN  {<<Num(T + 1), Num(0)>>, <<Num(T), Num(0)>>, <<Missing, Num(T + 1)>>}

\* ------------------------------------------------------------ run orchestrator
\* outcome: "none" before any run, "read_failure" for a run that got no state,
\* "done" for a run that evaluated the rules
NoRun == [outcome |-> "none", system |-> <<>>, decisions |-> <<>>, log |-> <<>>]

ReadFailure == [outcome |-> "read_failure", system |-> <<>>, decisions |-> <<>>, log |-> <<>>]

NoEvent == [old |-> Missing, new |-> Missing, run |-> FALSE, raised |-> "", seen |-> FALSE]

\* faulty variant: the exception of the host call is not noticed
GetSystemState_unguarded(r, hostRaises) ==
    IF host = "app" THEN App_get_system_state(r, FALSE)
    ELSE Int_get_system_state(r, cfg, FALSE)

\* system = self.get_system_state() / self._get_system_state()
GetSystemState(r, hostRaises) ==
    IF host = "app" THEN App_get_system_state(r, hostRaises)
    ELSE Int_get_system_state(r, cfg, hostRaises)

\* faulty variant: the evaluator leaves out what the throttle map remembers
MakeDecisions_remembering(s) ==
    SelectSeq(IF host = "app" THEN App_make_decisions(s, cfg) ELSE Int_make_decisions(s, cfg),
              LAMBDA d : d.action \notin DOMAIN last_notification)

\* decisions = self.make_decisions(system) / self._make_decisions(state)
MakeDecisions(s) ==
    IF host = "app" THEN App_make_decisions(s, cfg) ELSE Int_make_decisions(s, cfg)

\* the summary execute_decisions stores after its loop (app only)
Summary(decisions, system, now) ==
    <<[time |-> now,
       decisions |-> [j \in 1..Len(decisions) |-> decisions[j].action],
       system_snapshot |-> [pv_kw |-> system.pv_power_kw,
                            battery_soc |-> system.battery_soc,
                            car_soc |-> system.car_soc,
                            price_ct |-> system.current_price_ct]]>>

\* The run has left its loop: the app stores its summary, the integration
\* returns the state to the coordinator.
FinishRun(system, decisions, log) ==
    /\ last_decision' = IF host = "app" THEN Summary(decisions, system[1], clock)
                        ELSE last_decision
    /\ lastRun' = [outcome |-> "done", system |-> system,
                   decisions |-> decisions, log |-> log]

\* run_energy_manager / _async_update_data up to the first send: read the
\* state, evaluate the rules, walk the decisions.
StartRun(slot, r, hostRaises) ==
    \E system \in {GetSystemState(r, hostRaises)} :
        IF system = <<>>
        THEN \* the app logs a warning and returns, the integration raises UpdateFailed
             /\ lastRun' = ReadFailure
             /\ UNCHANGED <<last_notification, last_decision, runs, sentAt>>
        ELSE \E decisions \in {MakeDecisions(system[1])} :
             \E res \in {ExecuteFrom(decisions, 1, clock, last_notification, <<>>)} :
                 IF decisions = <<>>
                 THEN \* `if not decisions: return`
                      /\ lastRun' = [outcome |-> "done", system |-> system,
                                     decisions |-> <<>>, log |-> <<>>]
                      /\ UNCHANGED <<last_notification, last_decision, runs, sentAt>>
                 ELSE IF res.calling
                 THEN /\ runs' = [runs EXCEPT ![slot] =
                                     <<[system |-> system, decisions |-> decisions,
                                        i |-> res.i, now |-> clock, log |-> res.log]>>]
                      /\ UNCHANGED <<last_notification, last_decision, lastRun, sentAt>>
                 ELSE /\ FinishRun(system, decisions, res.log)
                      /\ UNCHANGED <<last_notification, runs, sentAt>>

\* the lowest free slot
FreeSlot == CHOOSE k \in Slots : runs[k] = <<>> /\ \A j \in Slots : runs[j] = <<>> => k <= j

\* run_every(self.run_energy_manager, "now", interval) / update_interval: the
\* host starts the periodic run when no run is in flight
TimerRun(r, hostRaises) ==
    /\ InFlight = {}
    /\ StartRun(1, r, hostRaises)
    /\ UNCHANGED <<host, cfg, clock, lastEvent, evalIn, evalOut>>

HandlePrice(old, new) ==
    IF host = "app" THEN App_on_price_change(old, new) ELSE Int_on_price_change(old, new)

\* The handler of a price-changed event, with the run it starts.  AppDaemon
\* runs the callbacks of one app one after the other, so the app's handler
\* waits for the run in flight; the integration's callback runs on the event
\* loop whenever a run is suspended in a send, and the task it creates starts
\* its run.
\* r and hostRaises are what the run it starts will read.
OnPriceChange(old, new, r, hostRaises) ==
    /\ host = "app" => InFlight = {}
    /\ InFlight # Slots
    /\ IF HandlePrice(old, new).raised = "" /\ HandlePrice(old, new).run
       THEN StartRun(FreeSlot, r, hostRaises)
       ELSE UNCHANGED <<last_notification, last_decision, runs, lastRun, sentAt>>
    /\ UNCHANGED <<host, cfg, clock, evalIn, evalOut>>

\* a price-changed event arrives
PriceChanged(old, new, r, hostRaises) ==
    /\ OnPriceChange(old, new, r, hostRaises)
    /\ UNCHANGED lastEvent

\* The send of run `slot` is over.  ok: call_service / async_call returned;
\* otherwise it raised and the except clause logged the error.  The loop then
\* goes on to the next send or to its end.
SendDone(slot, ok) ==
    /\ runs[slot] # <<>>
    /\ \E run \in {runs[slot][1]} :
       \E action \in {run.decisions[run.i].action} :
       \E log \in {[run.log EXCEPT ![Len(run.log)].outcome = IF ok THEN "sent" ELSE "failed"]} :
       \E written \in {IF ok THEN Record(last_notification, action, run.now)
                              ELSE last_notification} :
       \E res \in {ExecuteFrom(run.decisions, run.i + 1, clock, written, log)} :
           /\ last_notification' = written
           /\ sentAt' = IF ok THEN DictSet(sentAt, action, run.now) ELSE sentAt
           /\ IF res.calling
              THEN /\ runs' = [runs EXCEPT ![slot] =
                                  <<[run EXCEPT !.i = res.i, !.now = clock, !.log = res.log]>>]
                   /\ UNCHANGED <<last_decision, lastRun>>
              ELSE /\ runs' = [runs EXCEPT ![slot] = <<>>]
                   /\ FinishRun(run.system, run.decisions, res.log)
    /\ UNCHANGED <<host, cfg, clock, lastEvent, evalIn, evalOut>>

\* call_service / async_call returns
SendReturns(slot) == SendDone(slot, TRUE)

\* faulty variant: a failed send is recorded like a successful one
SendRaises_records(slot) == SendDone(slot, TRUE)

\* faulty variant: the exception of a failed send leaves the gate and ends the run
SendRaises_aborts(slot) ==
    /\ runs[slot] # <<>>
    /\ LET run == runs[slot][1]
           entry == run.log[Len(run.log)]
       IN  /\ runs' = [runs EXCEPT ![slot] = <<>>]
           /\ lastRun' = [outcome |-> "aborted", system |-> run.system,
                          decisions |-> run.decisions,
                          log |-> [run.log EXCEPT ![Len(run.log)] =
                                      [entry EXCEPT !.outcome = "failed"]]]
    /\ UNCHANGED <<host, cfg, clock, last_notification, last_decision, lastEvent,
                   sentAt, evalIn, evalOut>>

\* call_service / async_call raises, and `except Exception` logs the error
SendRaises(slot) == SendDone(slot, FALSE)

\* an hour passes
Tick ==
    /\ clock < MaxTime
    /\ clock' = clock + 1
    /\ UNCHANGED <<host, cfg, last_notification, last_decision, runs, lastRun,
                   lastEvent, sentAt, evalIn, evalOut>>

\* ------------------------------------------------------------ evaluator harness
\* configurations the rule sets are evaluated with: the defaults, the two
\* scenario configurations (thresholds in EUR/kWh), and two with coinciding
\* thresholds
EvalUserConfigs ==
    {<<>>,
     [price_cheap_threshold |-> 150, price_very_cheap_threshold |-> 80,
      price_expensive_threshold |-> 300],
     [price_cheap_threshold |-> 150, price_very_cheap_threshold |-> 80,
      price_expensive_threshold |-> 300, pv_surplus_for_car_charging |-> F(2)],
     [price_cheap_threshold |-> 150, price_very_cheap_threshold |-> 150,
      price_expensive_threshold |-> 300],
     [price_cheap_threshold |-> 300, price_very_cheap_threshold |-> 80,
      price_expensive_threshold |-> 300, car_min_soc_target |-> F(80)]}

\* the state of the scenarios: PV 3.5 kW, house 0.8 kW, car connected at 45 %,
\* battery at 72 %, price 0.125
ScenarioState ==
    [pv_power_kw |-> 3500, pv_surplus_kw |-> 2700, battery_soc |-> F(72),
     car_soc |-> F(45), car_connected |-> TRUE, price |-> 125]

\* states on both sides of every comparison the rules make under c
EvalStates(c) ==
    [pv_power_kw : {TimesPointTwo(c.pv_peak_power_kw), TimesPointTwo(c.pv_peak_power_kw) + 1},
     pv_surplus_kw : {c.pv_surplus_for_car_charging - 1, c.pv_surplus_for_car_charging,
                      c.pv_surplus_for_battery - 1, c.pv_surplus_for_battery},
     battery_soc : {c.battery_max_soc - 1, c.battery_max_soc,
                    c.battery_reserve_evening, c.battery_reserve_evening + 1},
     car_soc : {c.car_min_soc_target - 1, c.car_min_soc_target,
                c.car_default_target_soc - 1, c.car_default_target_soc},
     car_connected : BOOLEAN,
     price : {c.price_very_cheap_threshold, c.price_very_cheap_threshold + 1,
              c.price_cheap_threshold, c.price_cheap_threshold + 1,
              c.price_expensive_threshold - 1, c.price_expensive_threshold}]
    \cup {ScenarioState}

\* the state dictionary of each copy: the app calls the price current_price_ct,
\* the integration and the harness current_price_eur
AppState(v) ==
    [pv_power_kw |-> v.pv_power_kw, pv_surplus_kw |-> v.pv_surplus_kw,
     battery_soc |-> v.battery_soc, car_soc |-> v.car_soc,
     car_connected |-> v.car_connected, current_price_ct |-> v.price]

IntState(v) ==
    [pv_power_kw |-> v.pv_power_kw, pv_surplus_kw |-> v.pv_surplus_kw,
     battery_soc |-> v.battery_soc, car_soc |-> v.car_soc,
     car_connected |-> v.car_connected, current_price_eur |-> v.price]

NoEval == [used |-> FALSE]

\* ------------------------------------------------------------ specifications
InitEngine ==
    /\ host \in {"app", "integration"}
    /\ cfg \in IF host = "app" THEN {CONFIG} ELSE {MergeConfig(u) : u \in UserConfigs}
    /\ clock = 0
    /\ last_notification = EmptyDict
    /\ last_decision = <<>>
    /\ runs = [k \in Slots |-> <<>>]
    /\ lastRun = NoRun
    /\ sentAt = EmptyDict

Init ==
    /\ InitEngine
    /\ lastEvent = NoEvent
    /\ evalIn = NoEval
    /\ evalOut = <<>>

Next ==
    \/ \E r \in RunReadings, hostRaises \in BOOLEAN : TimerRun(r, hostRaises)
    \/ \E e \in EngineEvents(host), r \in RunReadings, hostRaises \in BOOLEAN :
          PriceChanged(e[1], e[2], r, hostRaises)
    \/ \E slot \in Slots : SendReturns(slot)
    \/ \E slot \in Slots : SendRaises(slot)
    \/ Tick

\* the engine with both triggers; in the integration a price-changed event
\* may start a run while another run waits for its send
Spec == Init /\ [][Next]_vars

\* runs executed one at a time: an event is handled when no run is in flight
NextSerial ==
    \/ \E r \in RunReadings, hostRaises \in BOOLEAN : TimerRun(r, hostRaises)
    \/ \E e \in EngineEvents(host), r \in RunReadings, hostRaises \in BOOLEAN :
          InFlight = {} /\ PriceChanged(e[1], e[2], r, hostRaises)
    \/ \E slot \in Slots : SendReturns(slot)
    \/ \E slot \in Slots : SendRaises(slot)
    \/ Tick

SpecSerial == Init /\ [][NextSerial]_vars

\* one price-changed event, drawn at the start, and the run it starts
InitPrice ==
    /\ InitEngine
    /\ lastEvent \in {[old |-> o, new |-> n, run |-> FALSE, raised |-> "", seen |-> FALSE] :
                         o \in EventPrices(host), n \in EventPrices(host)}
    /\ evalIn = NoEval
    /\ evalOut = <<>>

\* the event is delivered; run: a run started in the handler
DeliverPriceEvent ==
    /\ ~lastEvent.seen
    /\ \E r \in RunReadings, hostRaises \in BOOLEAN :
          OnPriceChange(lastEvent.old, lastEvent.new, r, hostRaises)
    /\ lastEvent' = [lastEvent EXCEPT
                        !.run = (lastRun' # lastRun \/ runs' # runs),
                        !.raised = HandlePrice(lastEvent.old, lastEvent.new).raised,
                        !.seen = TRUE]

NextPrice ==
    \/ DeliverPriceEvent
    \/ \E slot \in Slots : SendReturns(slot)
    \/ \E slot \in Slots : SendRaises(slot)

SpecPrice == InitPrice /\ [][NextPrice]_vars

\* the three rule sets applied to one state and configuration
InitEval ==
    /\ host = "harness"
    /\ cfg = CONFIG
    /\ clock = 0
    /\ last_notification = EmptyDict
    /\ last_decision = <<>>
    /\ runs = [k \in Slots |-> <<>>]
    /\ lastRun = NoRun
    /\ sentAt = EmptyDict
    /\ lastEvent = NoEvent
    /\ \E u \in EvalUserConfigs : \E v \in EvalStates(MergeConfig(u)) :
          evalIn = [used |-> TRUE, cfg |-> MergeConfig(u), s |-> v]
    /\ evalOut = <<>>

Evaluate ==
    /\ evalOut = <<>>
    /\ evalOut' = <<[app |-> App_make_decisions(AppState(evalIn.s), evalIn.cfg),
                     integration |-> Int_make_decisions(IntState(evalIn.s), evalIn.cfg),
                     harness |-> Test_make_decisions(IntState(evalIn.s), evalIn.cfg)]>>
    /\ UNCHANGED <<host, cfg, clock, last_notification, last_decision, runs, lastRun,
                   lastEvent, sentAt, evalIn>>

NextEval == Evaluate

SpecEval == InitEval /\ [][NextEval]_vars

\* configurations of the normalizer: the forecast sensors named, with the
\* default thresholds and with the scenario's
NormalizeUserConfigs ==
    {[entities |-> ForecastEntities],
     [entities |-> ForecastEntities, price_very_cheap_threshold |-> 80,
      price_cheap_threshold |-> 150, price_expensive_threshold |-> 300]}

\* what the host hands out for the sensors in one pass of the normalizer
NormalizeReadings ==
    [pv_power : {Str("unavailable"), Num(F(5000))},
     house_consumption : {Num(F(800))},
     battery_soc : {Missing, Num(F(72))},
     car_soc : {Str("abc"), Num(F(15))},
     car_connected : {Missing, Str("on"), Str("true"), Str("True"), Num(F(1)), Str("home"),
                      Str("off"), Str("ON"), Str("unavailable"), NumAlt(F(1))},
     current_price : {Missing, Str("unavailable"), Str("unknown"), Str("abc"),
                      Num(0), Num(125), Num(F(20)), Num(F(40))},
     price_level : {Missing, Str("CHEAP"), Str("NORMAL"), Str("VERY_EXPENSIVE"),
                    Str("unavailable")}]

\* the three normalizers applied to one set of readings
InitNormalize ==
    /\ host = "harness"
    /\ cfg = CONFIG
    /\ clock = 0
    /\ last_notification = EmptyDict
    /\ last_decision = <<>>
    /\ runs = [k \in Slots |-> <<>>]
    /\ lastRun = NoRun
    /\ sentAt = EmptyDict
    /\ lastEvent = NoEvent
    /\ \E u \in NormalizeUserConfigs, r \in NormalizeReadings :
          evalIn = [used |-> TRUE, cfg |-> MergeConfig(u), r |-> r]
    /\ evalOut = <<>>

Normalize ==
    /\ evalOut = <<>>
    /\ evalOut' = <<[app |-> App_get_system_state(evalIn.r, FALSE),
                     integration |-> Int_get_system_state(evalIn.r, evalIn.cfg, FALSE),
                     harness |-> Test_get_system_state(evalIn.r, evalIn.cfg)]>>
    /\ UNCHANGED <<host, cfg, clock, last_notification, last_decision, runs, lastRun,
                   lastEvent, sentAt, evalIn>>

NextNormalize == Normalize

SpecNormalize == InitNormalize /\ [][NextNormalize]_vars

\* threshold triples the classifier is applied with: the defaults, the
\* scenario's, very-cheap = cheap, cheap = expensive, three adjacent values,
\* and an inverted triple
ClassifyUserConfigs ==
    {<<>>,
     [price_very_cheap_threshold |-> 80, price_cheap_threshold |-> 150,
      price_expensive_threshold |-> 300],
     [price_very_cheap_threshold |-> 150, price_cheap_threshold |-> 150,
      price_expensive_threshold |-> 300],
     [price_very_cheap_threshold |-> 80, price_cheap_threshold |-> 300,
      price_expensive_threshold |-> 300],
     [price_very_cheap_threshold |-> 80, price_cheap_threshold |-> 81,
      price_expensive_threshold |-> 82],
     [price_very_cheap_threshold |-> 300, price_cheap_threshold |-> 150,
      price_expensive_threshold |-> 80]}

\* prices at and next to every threshold of c
ClassifyPrices(c) ==
    UNION {{x - 1, x, x + 1} : x \in {c.price_very_cheap_threshold, c.price_cheap_threshold,
                                      c.price_expensive_threshold}}

\* the two classifiers applied to two prices under one configuration
InitClassify ==
    /\ host = "harness"
    /\ cfg = CONFIG
    /\ clock = 0
    /\ last_notification = EmptyDict
    /\ last_decision = <<>>
    /\ runs = [k \in Slots |-> <<>>]
    /\ lastRun = NoRun
    /\ sentAt = EmptyDict
    /\ lastEvent = NoEvent
    /\ \E u \in ClassifyUserConfigs :
          \E p1 \in ClassifyPrices(MergeConfig(u)), p2 \in ClassifyPrices(MergeConfig(u)) :
             evalIn = [used |-> TRUE, cfg |-> MergeConfig(u), p1 |-> p1, p2 |-> p2]
    /\ evalOut = <<>>

Classify ==
    /\ evalOut = <<>>
    /\ evalOut' = <<[integration |-> <<Int_compute_price_level(evalIn.p1, evalIn.cfg),
                                        Int_compute_price_level(evalIn.p2, evalIn.cfg)>>,
                     harness |-> <<Test_compute_price_level(evalIn.p1, evalIn.cfg),
                                   Test_compute_price_level(evalIn.p2, evalIn.cfg)>>]>>
    /\ UNCHANGED <<host, cfg, clock, last_notification, last_decision, runs, lastRun,
                   lastEvent, sentAt, evalIn>>

NextClassify == Classify

SpecClassify == InitClassify /\ [][NextClassify]_vars

\* ------------------------------------------------------------ the periodic engine
\* readings under which the emergency rule fires in every run: the car is
\* connected at 15 %
LiveReadings == {r \in RunReadings : r.car_connected = Str("on")}

\* both hosts, the integration with its forecast sensors configured
InitLive ==
    /\ host \in {"app", "integration"}
    /\ cfg = IF host = "app" THEN CONFIG ELSE MergeConfig([entities |-> ForecastEntities])
    /\ clock = 0
    /\ last_notification = EmptyDict
    /\ last_decision = <<>>
    /\ runs = [k \in Slots |-> <<>>]
    /\ lastRun = NoRun
    /\ sentAt = EmptyDict
    /\ lastEvent = NoEvent
    /\ evalIn = NoEval
    /\ evalOut = <<>>

\* run_every(..., interval) / update_interval: the periodic run
TimerRunLive == \E r \in LiveReadings : TimerRun(r, FALSE)

\* the send of the emergency message returns
EmergencySendReturns ==
    \E slot \in Slots :
        /\ runs[slot] # <<>>
        /\ runs[slot][1].decisions[runs[slot][1].i].action = "car_charge_emergency"
        /\ SendReturns(slot)

\* an hour passes
TickLive ==
    /\ clock < MaxLiveTime
    /\ clock' = clock + 1
    /\ UNCHANGED <<host, cfg, last_notification, last_decision, runs, lastRun,
                   lastEvent, sentAt, evalIn, evalOut>>

NextLive ==
    \/ TimerRunLive
    \/ \E slot \in Slots : SendReturns(slot)
    \/ \E slot \in Slots : SendRaises(slot)
    \/ TickLive

\* the host keeps starting the periodic run, time advances, a send that is
\* tried again and again succeeds at last
SpecLive ==
    /\ InitLive
    /\ [][NextLive]_vars
    /\ WF_vars(TimerRunLive)
    /\ WF_vars(TickLive)
    /\ WF_vars(\E slot \in Slots : SendReturns(slot) \/ SendRaises(slot))
    /\ SF_vars(EmergencySendReturns)

\* ------------------------------------------------------------ the rule table
\* the rule table of the specification, in its order
TableActions == <<"car_charge_emergency", "car_charge_pv", "battery_charge_pv",
                  "battery_charge_grid", "car_charge_cheap", "stop_grid_consumption">>

TableIndex(action) == CHOOSE j \in 1..Len(TableActions) : TableActions[j] = action

TablePriority(action) ==
    CASE action = "car_charge_emergency" -> 0
      [] action \in {"car_charge_pv", "battery_charge_pv"} -> 1
      [] OTHER -> 2

TableNotify(action) == action # "battery_charge_pv"

\* the condition of a rule over the state v and the configuration c
TableCondition(action, v, c) ==
    CASE action = "car_charge_emergency" ->
            v.car_connected /\ v.car_soc < c.car_min_soc_target
      [] action = "car_charge_pv" ->
            /\ v.car_connected
            /\ v.car_soc < c.car_default_target_soc
            /\ v.pv_surplus_kw >= c.pv_surplus_for_car_charging
      [] action = "battery_charge_pv" ->
            /\ v.pv_surplus_kw >= c.pv_surplus_for_battery
            /\ v.battery_soc < c.battery_max_soc
            /\ ~v.car_connected
      [] action = "battery_charge_grid" ->
            /\ v.price <= c.price_very_cheap_threshold
            /\ v.battery_soc < c.battery_max_soc
            /\ ~(10 * v.pv_power_kw > 2 * c.pv_peak_power_kw)
      [] action = "car_charge_cheap" ->
            /\ v.car_connected
            /\ v.car_soc < c.car_default_target_soc
            /\ v.price <= c.price_cheap_threshold
            /\ v.pv_surplus_kw < c.pv_surplus_for_car_charging
      [] OTHER ->
            v.price >= c.price_expensive_threshold /\ v.battery_soc > c.battery_reserve_evening

Copies == {"app", "integration", "harness"}

\* C1: every list a rule set returns is sorted by non-decreasing priority, and
\* decisions of equal priority stand in the order of the rule table.
C1_SortedInTableOrder ==
    evalOut # <<>> =>
        \A copy \in Copies :
            LET d == evalOut[1][copy]
            IN  \A i, j \in 1..Len(d) :
                    i < j => /\ d[i].priority <= d[j].priority
                             /\ d[i].priority = d[j].priority =>
                                    TableIndex(d[i].action) < TableIndex(d[j].action)

\* the emergency rule, appended fifth, leads two rules of priority 2
C1_Witness ==
    /\ evalOut # <<>>
    /\ \E copy \in Copies :
          LET d == evalOut[1][copy]
          IN  /\ Len(d) = 3
              /\ d[1].action = "car_charge_emergency"
              /\ d[2].action = "battery_charge_grid"
              /\ d[3].action = "car_charge_cheap"

\* C2: with the car connected and its SOC below the minimum target,
\* car_charge_emergency is the first decision, and no other decision has
\* priority 0.
C2_EmergencyFirst ==
    evalOut # <<>> =>
        \A copy \in Copies :
            LET d == evalOut[1][copy]
            IN  /\ (evalIn.s.car_connected /\ evalIn.s.car_soc < evalIn.cfg.car_min_soc_target)
                       => (Len(d) >= 1 /\ d[1].action = "car_charge_emergency")
                /\ \A i \in 1..Len(d) :
                       d[i].priority = 0 => d[i].action = "car_charge_emergency"

\* the emergency rule fires together with car_charge_pv, which is appended first
C2_Witness ==
    /\ evalOut # <<>>
    /\ evalIn.s.car_connected /\ evalIn.s.car_soc < evalIn.cfg.car_min_soc_target
    /\ \A copy \in Copies :
          /\ Len(evalOut[1][copy]) >= 2
          /\ evalOut[1][copy][1].action = "car_charge_emergency"
          /\ evalOut[1][copy][2].action = "car_charge_pv"

\* C3: a rule set returns exactly the decisions whose table condition holds,
\* once each, with the table's priority and notify flag.
C3_ExactlyTheTable ==
    evalOut # <<>> =>
        \A copy \in Copies :
            LET d == evalOut[1][copy]
                expected == {a \in {TableActions[j] : j \in 1..Len(TableActions)} :
                                TableCondition(a, evalIn.s, evalIn.cfg)}
            IN  /\ {d[i].action : i \in 1..Len(d)} = expected
                /\ Len(d) = Cardinality(expected)
                /\ \A i \in 1..Len(d) :
                       /\ d[i].priority = TablePriority(d[i].action)
                       /\ copy # "harness" => d[i].notify = TableNotify(d[i].action)

\* the first scenario: surplus 2.7 kW under a 3.0 kW threshold, price 0.125
\* under the cheap threshold 0.15: car_charge_cheap alone
C3_Witness ==
    /\ evalOut # <<>>
    /\ evalIn.s = ScenarioState
    /\ evalIn.cfg.price_cheap_threshold = 150
    /\ evalIn.cfg.pv_surplus_for_car_charging = F(3)
    /\ evalOut[1].app = <<Decision("car_charge_cheap", 2, TRUE, TRUE)>>
    /\ evalOut[1].integration = <<Decision("car_charge_cheap", 2, TRUE, TRUE)>>
    /\ evalOut[1].harness = <<TestDecision("car_charge_cheap", 2)>>

\* ------------------------------------------------------------ the gate and the runs
\* the gate calls of the run that ended last and of the runs in flight
AllLogs == {lastRun.log} \cup {runs[k][1].log : k \in InFlight}

\* the action whose send run `slot` waits for
Sending(slot) == runs[slot][1].decisions[runs[slot][1].i].action

C4_SuppressedIffRecent ==
    /\ \A log \in AllLogs : \A j \in 1..Len(log) :
          /\ log[j].outcome = "suppressed"
                <=> (log[j].since # <<>> /\ log[j].since[1] < 2)
          /\ log[j].outcome # "suppressed" => log[j].outcome \in {"calling", "sent", "failed"}
    /\ last_notification = sentAt

C4_EmissionRecorded ==
    \A slot \in Slots :
        SendReturns(slot) =>
            /\ Sending(slot) \in DOMAIN last_notification'
            /\ last_notification'[Sending(slot)] = runs[slot][1].now

C4_TwoHoursApart ==
    \A a \in DOMAIN sentAt : sentAt'[a] # sentAt[a] => sentAt'[a] - sentAt[a] >= 2

\* C4: with runs executed one at a time, a gate call is suppressed if and only
\* if the action has an entry less than 2 hours old; otherwise the message is
\* handed to the notifier, and when the send succeeds the entry becomes the
\* time of the call; two successful emissions of one action are 2 hours or
\* more apart.
C4_Gate ==
    /\ []C4_SuppressedIffRecent
    /\ [][C4_EmissionRecorded /\ C4_TwoHoursApart]_vars

\* one run suppresses an action sent an hour before and sends again an action
\* sent two hours before
C4_Witness ==
    \E j, k \in 1..Len(lastRun.log) :
        /\ lastRun.log[j].outcome = "suppressed" /\ lastRun.log[j].since = <<1>>
        /\ lastRun.log[k].outcome = "sent" /\ lastRun.log[k].since = <<2>>

\* C5: when the send fails, the exception does not leave the gate (the run
\* goes on to its next decision or to its end) and the throttle map is what it
\* was before the call; the map holds the times of successful sends only, so
\* no later call is suppressed on account of the failed one.
C5_FailedSendLeavesMap ==
    /\ [][\A slot \in Slots :
             SendRaises(slot) =>
                 /\ last_notification' = last_notification
                 /\ runs'[slot] # <<>> \/ lastRun'.outcome = "done"]_vars
    /\ [](\A a \in DOMAIN last_notification :
             a \in DOMAIN sentAt /\ last_notification[a] = sentAt[a])

\* a run ended whose send failed for an action that has no entry
C5_Witness ==
    /\ lastRun.outcome = "done"
    /\ \E j \in 1..Len(lastRun.log) :
          /\ lastRun.log[j].outcome = "failed"
          /\ lastRun.log[j].action \notin DOMAIN last_notification

\* the decisions of a list the loop submits to the gate
Eligible(decisions) == SelectSeq(decisions, LAMBDA d : d.notify /\ d.details)

\* C6: a run that evaluated the rules submits every notify-eligible decision
\* of its list to the gate, in order, whether or not a send of it failed.
C6_FailedSendDoesNotAbort ==
    /\ lastRun.outcome \notin {"none", "read_failure"} =>
          /\ Len(lastRun.log) = Len(Eligible(lastRun.decisions))
          /\ \A j \in 1..Len(lastRun.log) :
                lastRun.log[j].action = Eligible(lastRun.decisions)[j].action
    /\ \A k \in InFlight :
          LET run == runs[k][1]
              before == Eligible(SubSeq(run.decisions, 1, run.i))
          IN  /\ Len(run.log) = Len(before)
              /\ \A j \in 1..Len(run.log) : run.log[j].action = before[j].action

\* the first send of a run failed and the second decision was sent all the same
C6_Witness ==
    /\ lastRun.outcome = "done"
    /\ Len(lastRun.log) = 2
    /\ lastRun.log[1].outcome = "failed"
    /\ lastRun.log[2].outcome = "sent"

\* a trigger starts a run that reads r
Triggered(r, hostRaises) ==
    \/ TimerRun(r, hostRaises)
    \/ \E e \in EngineEvents(host) :
          HandlePrice(e[1], e[2]).run /\ PriceChanged(e[1], e[2], r, hostRaises)

\* the run ended without a state: nothing evaluated, nothing sent, nothing kept
Skipped ==
    /\ lastRun'.outcome = "read_failure"
    /\ lastRun'.decisions = <<>> /\ lastRun'.log = <<>>
    /\ UNCHANGED <<last_notification, last_decision, runs, sentAt>>

\* C7: a run whose state assembly raises (a host call raises, or the merged
\* entities lack a name the integration reads) is skipped: no decision, no
\* gate call, throttle map unchanged, no run left in flight; the next trigger
\* can start a run.
C7_ReadFailureSkipsRun ==
    /\ [][\A r \in RunReadings :
             /\ Triggered(r, TRUE) => Skipped
             /\ (host = "integration" /\ ~(ForecastEntities \subseteq cfg.entities)
                    /\ Triggered(r, FALSE)) => Skipped]_vars
    /\ [](lastRun.outcome = "read_failure" /\ InFlight = {}
             => ENABLED (\E r \in RunReadings : TimerRun(r, FALSE)))

\* a read failure after a successful send: the entry is still there
C7_Witness ==
    /\ lastRun.outcome = "read_failure"
    /\ last_notification # EmptyDict
    /\ InFlight = {}

\* C8: at most one run is in flight at any time.
C8_NoOverlap == Cardinality(InFlight) <= 1

\* ------------------------------------------------------------ price-changed events
Threshold == IF host = "app" THEN APP_SIGNIFICANT_CHANGE ELSE INT_SIGNIFICANT_CHANGE

BothNumeric == lastEvent.old.k = "num" /\ lastEvent.new.k = "num"

\* C9: no run is started, and nothing is raised, when old and new are equal,
\* when old is missing or unavailable, when either is no number, or when
\* |new - old| is at most the threshold.
C9_NoRunBelowThreshold ==
    lastEvent.seen =>
        /\ lastEvent.raised = ""
        /\ (\/ lastEvent.old = lastEvent.new
            \/ lastEvent.old \in {Missing, Str("unavailable")}
            \/ ~BothNumeric
            \/ Abs(lastEvent.new.n - lastEvent.old.n) <= Threshold)
               => ~lastEvent.run

\* C10: a run is started whenever old and new are both numbers and
\* |new - old| exceeds the threshold.
C10_RunAboveThreshold ==
    (lastEvent.seen /\ BothNumeric
        /\ Abs(lastEvent.new.n - lastEvent.old.n) > Threshold)
        => lastEvent.run

\* ------------------------------------------------------------ price classifier
Classifiers == {"integration", "harness"}

\* the first matching level of the specification's order
FirstMatch(p, c) ==
    CASE p <= c.price_very_cheap_threshold -> "VERY_CHEAP"
      [] p > c.price_very_cheap_threshold /\ p <= c.price_cheap_threshold -> "CHEAP"
      [] p > c.price_very_cheap_threshold /\ p > c.price_cheap_threshold
            /\ p >= c.price_expensive_threshold -> "EXPENSIVE"
      [] OTHER -> "NORMAL"

\* C11: the classifier returns the first matching level in the order
\* VERY_CHEAP (price <= very-cheap), CHEAP (price <= cheap), EXPENSIVE
\* (price >= expensive), NORMAL; with very-cheap = cheap a price equal to them
\* is VERY_CHEAP.
C11_FirstMatchingLevel ==
    evalOut # <<>> =>
        \A k \in Classifiers :
            /\ evalOut[1][k][1] = FirstMatch(evalIn.p1, evalIn.cfg)
            /\ (evalIn.cfg.price_very_cheap_threshold = evalIn.cfg.price_cheap_threshold
                   /\ evalIn.p1 = evalIn.cfg.price_cheap_threshold)
                  => evalOut[1][k][1] = "VERY_CHEAP"

\* very-cheap = cheap = 0.15 and the price is 0.15
C11_Witness ==
    /\ evalOut # <<>>
    /\ evalIn.cfg.price_very_cheap_threshold = 150
    /\ evalIn.cfg.price_cheap_threshold = 150
    /\ evalIn.p1 = 150
    /\ \A k \in Classifiers : evalOut[1][k][1] = "VERY_CHEAP"

Rank(level) ==
    CASE level = "VERY_CHEAP" -> 0
      [] level = "CHEAP" -> 1
      [] level = "NORMAL" -> 2
      [] level = "EXPENSIVE" -> 3

ValidThresholds(c) ==
    /\ c.price_very_cheap_threshold < c.price_cheap_threshold
    /\ c.price_cheap_threshold < c.price_expensive_threshold

\* C12: with very_cheap < cheap < expensive the level does not get cheaper as
\* the price rises, and each level is the image of one interval: VERY_CHEAP of
\* (-inf, very_cheap], CHEAP of (very_cheap, cheap], NORMAL of (cheap,
\* expensive), EXPENSIVE of [expensive, inf).
C12_MonotonicIntervals ==
    (evalOut # <<>> /\ ValidThresholds(evalIn.cfg)) =>
        \A k \in Classifiers :
            LET l1 == evalOut[1][k][1]
                l2 == evalOut[1][k][2]
                p == evalIn.p1
                c == evalIn.cfg
            IN  /\ evalIn.p1 <= evalIn.p2 => Rank(l1) <= Rank(l2)
                /\ l1 = "VERY_CHEAP" <=> p <= c.price_very_cheap_threshold
                /\ l1 = "CHEAP" <=> (c.price_very_cheap_threshold < p
                                        /\ p <= c.price_cheap_threshold)
                /\ l1 = "NORMAL" <=> (c.price_cheap_threshold < p
                                         /\ p < c.price_expensive_threshold)
                /\ l1 = "EXPENSIVE" <=> c.price_expensive_threshold <= p

\* a price just under the expensive threshold is NORMAL, the threshold itself
\* EXPENSIVE
C12_Witness ==
    /\ evalOut # <<>>
    /\ ValidThresholds(evalIn.cfg)
    /\ evalIn.p1 = evalIn.cfg.price_expensive_threshold - 1
    /\ evalIn.p2 = evalIn.cfg.price_expensive_threshold
    /\ \A k \in Classifiers : evalOut[1][k] = <<"NORMAL", "EXPENSIVE">>

\* ------------------------------------------------------------ evaluator and gate in a run
\* the runs that evaluated the rules: the one that ended last, those in flight
EvaluatedRuns ==
    (IF lastRun.outcome = "done" THEN {lastRun} ELSE {}) \cup {runs[k][1] : k \in InFlight}

GateCalls(log, a) == Cardinality({j \in 1..Len(log) : log[j].action = a})

\* C14: a run that obtained a state asks the gate once for every decision
\* with notify and a detail message and never for another decision;
\* battery_charge_pv gets neither a gate call nor a throttle entry.
C14_GateOncePerEligible ==
    /\ lastRun.outcome = "done" =>
          /\ \A i \in 1..Len(lastRun.decisions) :
                GateCalls(lastRun.log, lastRun.decisions[i].action) =
                    IF lastRun.decisions[i].notify /\ lastRun.decisions[i].details
                    THEN 1 ELSE 0
          /\ \A j \in 1..Len(lastRun.log) :
                \E i \in 1..Len(lastRun.decisions) :
                    lastRun.decisions[i].action = lastRun.log[j].action
    /\ \A log \in AllLogs : GateCalls(log, "battery_charge_pv") = 0
    /\ "battery_charge_pv" \notin DOMAIN last_notification

\* a run decided battery_charge_pv and stop_grid_consumption and sent the latter
C14_Witness ==
    /\ lastRun.outcome = "done"
    /\ Len(lastRun.decisions) = 2
    /\ lastRun.decisions[1].action = "battery_charge_pv"
    /\ lastRun.decisions[2].action = "stop_grid_consumption"
    /\ Len(lastRun.log) = 1
    /\ lastRun.log[1].action = "stop_grid_consumption"
    /\ lastRun.log[1].outcome = "sent"

\* ------------------------------------------------------------ normalizer
\* the price of a built state, whatever the copy calls it
PriceOf(s) ==
    IF "current_price_ct" \in DOMAIN s THEN s.current_price_ct ELSE s.current_price_eur

\* C15: a boolean-like reading is true exactly for the literals on, true, 1,
\* home and false for every other value, a missing reading included.
C15_BooleanLiterals ==
    evalOut # <<>> =>
        \A copy \in Copies :
            evalOut[1][copy] # <<>> =>
                (evalOut[1][copy][1].car_connected
                    <=> evalIn.r.car_connected \in {Str("on"), Str("true"), Num(F(1)), Str("home")})

NumericSensors == {"pv_power", "house_consumption", "battery_soc", "car_soc", "current_price"}

\* the readings with every unusable numeric reading replaced by a genuine 0
Defaulted(r) ==
    [name \in DOMAIN r |->
        IF name \in NumericSensors /\ r[name].k # "num" THEN Num(0) ELSE r[name]]

\* C16: a missing, unavailable, unknown or non-numeric reading of a numeric
\* sensor is no read failure: the state is built, and it is the state built
\* from the same readings with a genuine 0 in that sensor's place.
C16_DefaultNotEscalated ==
    evalOut # <<>> =>
        /\ \A copy \in Copies : evalOut[1][copy] # <<>>
        /\ evalOut[1].app = App_get_system_state(Defaulted(evalIn.r), FALSE)
        /\ evalOut[1].integration = Int_get_system_state(Defaulted(evalIn.r), evalIn.cfg, FALSE)
        /\ evalOut[1].harness = Test_get_system_state(Defaulted(evalIn.r), evalIn.cfg)

\* unavailable price, non-numeric car SOC, genuine battery SOC: price and car
\* SOC are 0, the battery SOC is the reading
C16_Witness ==
    /\ evalOut # <<>>
    /\ evalIn.r.current_price = Str("unavailable")
    /\ evalIn.r.car_soc = Str("abc")
    /\ evalIn.r.battery_soc = Num(F(72))
    /\ \A copy \in Copies :
          /\ evalOut[1][copy] # <<>>
          /\ PriceOf(evalOut[1][copy][1]) = 0
          /\ evalOut[1][copy][1].car_soc = 0
          /\ evalOut[1][copy][1].battery_soc = F(72)

Levels == {"VERY_CHEAP", "CHEAP", "NORMAL", "EXPENSIVE"}

\* C17: the price level of every built state is one of the four levels and
\* is the classifier's level for the state's price under the configured
\* thresholds.
C17_LevelIsClassified ==
    evalOut # <<>> =>
        \A copy \in Copies :
            evalOut[1][copy] # <<>> =>
                LET s == evalOut[1][copy][1]
                    c == IF copy = "app" THEN CONFIG ELSE evalIn.cfg
                IN  /\ s.price_level \in Levels
                    /\ s.price_level = FirstMatch(PriceOf(s), c)

\* ------------------------------------------------------------ last-run summary
\* C18: after a run that obtained a state, the summary the app retains is
\* that run's: its identifiers are the run's decisions in order (none when no
\* rule fired) and its snapshot is taken from the run's state.
C18_SummaryIsOfLastRun ==
    (host = "app" /\ lastRun.outcome = "done" /\ last_decision # <<>>) =>
        /\ last_decision[1].decisions =
              [j \in 1..Len(lastRun.decisions) |-> lastRun.decisions[j].action]
        /\ last_decision[1].system_snapshot =
              [pv_kw |-> lastRun.system[1].pv_power_kw,
               battery_soc |-> lastRun.system[1].battery_soc,
               car_soc |-> lastRun.system[1].car_soc,
               price_ct |-> lastRun.system[1].current_price_ct]

\* ------------------------------------------------------------ configuration
\* C19: the configuration the rules have been evaluated with (defaults merged
\* with the user's values) has very_cheap < cheap < expensive and
\* car_min_soc_target < car_default_target_soc.
C19_ConfigOrdered ==
    evalOut # <<>> =>
        /\ evalIn.cfg.price_very_cheap_threshold < evalIn.cfg.price_cheap_threshold
        /\ evalIn.cfg.price_cheap_threshold < evalIn.cfg.price_expensive_threshold
        /\ evalIn.cfg.car_min_soc_target < evalIn.cfg.car_default_target_soc

\* ------------------------------------------------------------ charging the car
\* the actions of a decision list
Actions(d) == {d[i].action : i \in 1..Len(d)}

\* C20: no list holds both car_charge_pv and car_charge_cheap: with the PV
\* surplus at or above the car-surplus threshold car_charge_cheap is never
\* produced, and with the surplus below it car_charge_pv is never produced.
C20_CarRulesExclusive ==
    evalOut # <<>> =>
        \A copy \in Copies :
            LET a == Actions(evalOut[1][copy])
            IN  /\ ~({"car_charge_pv", "car_charge_cheap"} \subseteq a)
                /\ evalIn.s.pv_surplus_kw >= evalIn.cfg.pv_surplus_for_car_charging
                      => "car_charge_cheap" \notin a
                /\ evalIn.s.pv_surplus_kw < evalIn.cfg.pv_surplus_for_car_charging
                      => "car_charge_pv" \notin a

\* the second scenario: the threshold lowered to 2.0 kW under a surplus of
\* 2.7 kW and a cheap price: car_charge_pv and no car_charge_cheap
C20_Witness ==
    /\ evalOut # <<>>
    /\ evalIn.s = ScenarioState
    /\ evalIn.cfg.pv_surplus_for_car_charging = F(2)
    /\ evalIn.s.price <= evalIn.cfg.price_cheap_threshold
    /\ \A copy \in Copies : Actions(evalOut[1][copy]) = {"car_charge_pv"}

\* ------------------------------------------------------------ grid charging and stopping
\* C21: under thresholds with very_cheap < cheap < expensive no list holds
\* stop_grid_consumption together with battery_charge_grid or
\* car_charge_cheap.
C21_NoGridChargeWithStop ==
    (evalOut # <<>> /\ ValidThresholds(evalIn.cfg)) =>
        \A copy \in Copies :
            LET a == Actions(evalOut[1][copy])
            IN  "stop_grid_consumption" \in a =>
                    /\ "battery_charge_grid" \notin a
                    /\ "car_charge_cheap" \notin a

\* ordered thresholds, the price at the expensive threshold, a connected car
\* below its target with too little surplus: the stop is recommended, the
\* cheap charge is not
C21_Witness ==
    /\ evalOut # <<>>
    /\ ValidThresholds(evalIn.cfg)
    /\ evalIn.s.price = evalIn.cfg.price_expensive_threshold
    /\ evalIn.s.car_connected
    /\ evalIn.s.car_soc < evalIn.cfg.car_default_target_soc
    /\ evalIn.s.pv_surplus_kw < evalIn.cfg.pv_surplus_for_car_charging
    /\ evalIn.s.battery_soc < evalIn.cfg.battery_max_soc
    /\ \A copy \in Copies :
          /\ "stop_grid_consumption" \in Actions(evalOut[1][copy])
          /\ "car_charge_cheap" \notin Actions(evalOut[1][copy])
          /\ "battery_charge_grid" \notin Actions(evalOut[1][copy])

\* ------------------------------------------------------------ interleaved runs
\* C22: also with runs whose sends interleave, an action that has been sent
\* is not handed to the notifier again within 2 hours: a run that has passed
\* the gate for an action and is inside its send passed it 2 hours or more
\* from the gate time of the action's last successful send.
C22_NoSecondSendInWindow ==
    \A k \in InFlight :
        Sending(k) \in DOMAIN sentAt =>
            Abs(runs[k][1].now - sentAt[Sending(k)]) >= COOLDOWN_HOURS

\* ------------------------------------------------------------ the window of one identifier
\* the gate calls a step adds to the log of the run it starts or resumes
GateCallsOfStep ==
    IF InFlight = {}
    THEN IF InFlight' # {}
         THEN runs'[CHOOSE k \in InFlight' : TRUE][1].log
         ELSE IF lastRun' # lastRun THEN lastRun'.log ELSE <<>>
    ELSE LET k == CHOOSE slot \in InFlight : TRUE
             old == runs[k][1].log
             new == IF runs'[k] # <<>> THEN runs'[k][1].log ELSE lastRun'.log
         IN  SubSeq(new, Len(old) + 1, Len(new))

\* the map changes in the entry of the action whose send returned, and in
\* no other
C23_OnlyTheSentEntryChanges ==
    \A a \in DOMAIN last_notification' :
        (a \notin DOMAIN last_notification \/ last_notification'[a] # last_notification[a])
            => \E k \in InFlight :
                  /\ Sending(k) = a
                  /\ last_notification'[a] = runs[k][1].now
                  /\ \A b \in DOMAIN last_notification :
                        b # a => last_notification'[b] = last_notification[b]

\* a gate call is suppressed exactly on account of its own action's entry
C23_SuppressedByOwnEntry ==
    \A j \in 1..Len(GateCallsOfStep) :
        LET e == GateCallsOfStep[j]
        IN  e.outcome = "suppressed"
                <=> /\ e.action \in DOMAIN last_notification'
                    /\ clock - last_notification'[e.action] < COOLDOWN_HOURS

\* a step whose gate calls are all suppressed leaves the map as it was
C23_SuppressionKeepsMap ==
    (InFlight = {} /\ InFlight' = {}) => last_notification' = last_notification

\* C23: the cooldown is a fixed window per identifier: a suppressed call
\* leaves the whole map unchanged, a call for one identifier changes no
\* other identifier's entry, and a call is suppressed on account of its own
\* identifier's entry only.
C23_PerIdentifierWindow ==
    [][/\ C23_OnlyTheSentEntryChanges
       /\ C23_SuppressedByOwnEntry
       /\ C23_SuppressionKeepsMap]_vars

\* one run found its first action sent an hour before and suppressed it, and
\* sent its second action; the first action's entry is still the older time
C23_Witness ==
    /\ lastRun.outcome = "done"
    /\ Len(lastRun.log) = 2
    /\ lastRun.log[1].outcome = "suppressed" /\ lastRun.log[1].since = <<1>>
    /\ lastRun.log[2].outcome = "sent" /\ lastRun.log[2].since = <<>>
    /\ lastRun.log[1].action \in DOMAIN last_notification
    /\ lastRun.log[2].action \in DOMAIN last_notification
    /\ last_notification[lastRun.log[2].action]
          = last_notification[lastRun.log[1].action] + 1

\* ------------------------------------------------------------ the keys of the throttle map
NotifyEligible ==
    {"car_charge_emergency", "car_charge_pv", "battery_charge_grid", "car_charge_cheap",
     "stop_grid_consumption"}

\* C24: the keys of the throttle map are among the five notify-eligible
\* identifiers, each entry is the time of the latest successful send of its
\* identifier, no entry is ever removed and no entry moves back in time.
C24_KeysAndLatestSend ==
    /\ [](/\ DOMAIN last_notification \subseteq NotifyEligible
          /\ DOMAIN last_notification = DOMAIN sentAt
          /\ \A a \in DOMAIN last_notification : last_notification[a] = sentAt[a])
    /\ [][/\ DOMAIN last_notification \subseteq DOMAIN last_notification'
          /\ \A a \in DOMAIN last_notification :
                last_notification'[a] >= last_notification[a]]_vars

\* ------------------------------------------------------------ notified again and again
\* the last gate call of a finished run for the emergency action
EmergencyCalls(log) == SelectSeq(log, LAMBDA e : e.action = "car_charge_emergency")

\* a run that ends has called the gate for the emergency action, and the call
\* was suppressed only under an entry less than 2 hours old: the first run
\* 2 hours after a successful send emits again, and so does the run after a
\* failed send
C25_DueRunEmits ==
    (lastRun' # lastRun /\ lastRun'.outcome = "done") =>
        /\ Len(EmergencyCalls(lastRun'.log)) = 1
        /\ LET e == EmergencyCalls(lastRun'.log)[1]
           IN  /\ e.outcome = "suppressed" <=> (e.since # <<>> /\ e.since[1] < COOLDOWN_HOURS)
               /\ (lastRun.outcome = "done"
                     /\ EmergencyCalls(lastRun.log)[1].outcome = "failed")
                      => e.outcome \in {"sent", "failed"}

\* C25: with the emergency rule firing in every run, periodic runs, advancing
\* time and sends that succeed at last, the action is notified, and notified
\* again once 2 hours have passed since its last successful send; the first
\* run that is due emits, and so does the run after a failed send.
C25_NotifiedAgainAndAgain ==
    /\ [][C25_DueRunEmits]_vars
    /\ <>("car_charge_emergency" \in DOMAIN last_notification)
    /\ \A t \in 0..(MaxLiveTime - COOLDOWN_HOURS) :
          ("car_charge_emergency" \in DOMAIN last_notification
              /\ last_notification["car_charge_emergency"] = t)
          ~> ("car_charge_emergency" \in DOMAIN last_notification
                 /\ last_notification["car_charge_emergency"] >= t + COOLDOWN_HOURS)

\* the emergency message was sent at hour 2, and is sent again at hour 4 by a
\* run that found the entry 2 hours old
C25_Witness ==
    /\ clock = 4
    /\ lastRun.outcome = "done"
    /\ EmergencyCalls(lastRun.log)[1].outcome = "sent"
    /\ EmergencyCalls(lastRun.log)[1].since = <<2>>
    /\ last_notification["car_charge_emergency"] = 4

\* ------------------------------------------------------------ the three copies
\* the (action, priority) pairs of a decision list, in its order
Pairs(d) == [i \in 1..Len(d) |-> <<d[i].action, d[i].priority>>]

\* C26: for the same state values and the same configuration values the
\* app's, the integration's and the harness's rule set return the same
\* sequence of (action, priority) pairs.
C26_CopiesAgree ==
    evalOut # <<>> =>
        /\ Pairs(evalOut[1].app) = Pairs(evalOut[1].integration)
        /\ Pairs(evalOut[1].integration) = Pairs(evalOut[1].harness)

\* three decisions, two of them of priority 2, in the same order in all copies
C26_Witness ==
    /\ evalOut # <<>>
    /\ Len(evalOut[1].app) = 3
    /\ evalOut[1].app[2].priority = 2 /\ evalOut[1].app[3].priority = 2
    /\ Pairs(evalOut[1].app) = Pairs(evalOut[1].integration)
    /\ Pairs(evalOut[1].app) = Pairs(evalOut[1].harness)

====
